---- MODULE Spec2Model ----
(***************************************************************************)
(* Model of src/src/city_selector.py: select_dispersed_cities (greedy      *)
(* farthest-point construction) followed by post_process_city_selection    *)
(* (iterative repair of pairs closer than min_distance_km).                *)
(*                                                                         *)
(* Conventions.                                                            *)
(*  - A data frame is a sequence of rows.  A row of cities_df/valid_cities *)
(*    is a record [index, city, lat, lng, population]; `index` is the      *)
(*    frame's index label (a RangeIndex on the input, kept by dropna and   *)
(*    sort_values), `city` is the name column and identifies the record.   *)
(*  - improved_cities is the frame produced by iloc[...].reset_index(      *)
(*    drop=True): its index labels are the positions 0..k-1, so the row    *)
(*    with label p is improved_cities[p+1] and rows carry no index field.  *)
(*  - Positions and labels are 0-based as in the source; TLA+ sequences    *)
(*    are 1-based, hence the "+ 1" in every sequence access.               *)
(*  - Coordinates are whole degrees.  The inputs lie on the equator        *)
(*    (lat = 0) where the haversine formula reduces to R * |dlon| (in      *)
(*    radians); distances are held in metres, one degree being             *)
(*    6371.0 * pi / 180 = 111.195 km.  min_distance_km is held in metres   *)
(*    as well, so that it compares with distances as in the source.        *)
(***************************************************************************)
EXTENDS Integers, Sequences, FiniteSets, TLC

\* ---------------------------------------------------------------- bounds
MaxPool == 4
MaxN == 3

\* ------------------------------------------------------------- constants
NaN == -999
Infinity == 1000000000
MetersPerDegree == 111195

\* Input values.  Longitudes 0, 1, 2 degrees: on this grid the differences of
\* the radian values are exact in floating point, so equal degree differences
\* give equal distances in the source as they do here.  Two population levels
\* give every outcome of the comparisons the source makes on populations.
\* min_distance_km is either exactly the distance of one degree or 150 km.
Lngs == {0, 1, 2}
Pops == {1, 2}
MinDistances == {MetersPerDegree, 150000}
AllColumns == {"lat", "lng", "population"}

VARIABLES
    columns,             \* cities_df.columns
    cities_df,           \* argument of select_dispersed_cities
    n_requested,         \* argument n_cities as passed by the caller
    min_distance_km,     \* argument min_distance_km (metres)
    pc,                  \* "start" | "greedy" | "repair" | "done" | "error"
    n_cities,            \* local n_cities (reduced at line 184)
    valid_cities,        \* valid_cities / all_cities
    coords_rad,          \* coords_rad (degrees), one <<lat, lng>> per position
    selected_indices,    \* list selected_indices of select_dispersed_cities
    improved_cities,     \* improved_cities of post_process_city_selection
    selected_index_set,  \* set selected_indices of post_process_city_selection
    warnings,            \* logging.warning calls made so far
    error,               \* exception that ended the call, "none" otherwise
    trail,               \* history: improved_cities at entry and after each replacement
    replaced             \* history: replace_idx of each replacement performed

vars == <<columns, cities_df, n_requested, min_distance_km, pc, n_cities,
          valid_cities, coords_rad, selected_indices, improved_cities,
          selected_index_set, warnings, error, trail, replaced>>

\* ------------------------------------------------------- pure operators
Abs(x) == IF x < 0 THEN 0 - x ELSE x

Min2(a, b) == IF a < b THEN a ELSE b

\* haversine_distance(lat1, lon1, lat2, lon2) for two points on a common
\* meridian or both on the equator: R * c with c the absolute difference of
\* the varying coordinate.
haversine_distance(lat1, lon1, lat2, lon2) ==
    IF lon1 = lon2 THEN MetersPerDegree * Abs(lat2 - lat1)
                   ELSE MetersPerDegree * Abs(lon2 - lon1)

\* 6371.0 * sklearn.metrics.pairwise.haversine_distances(p, q) on coordinate
\* pairs <<lat, lng>>.
distances_km(p, q) == haversine_distance(p[1], p[2], q[1], q[2])

RowDistance(a, b) == haversine_distance(a.lat, a.lng, b.lat, b.lng)

\* Row of a frame without its index label (a row as held by improved_cities).
Row(r) == [city |-> r.city, lat |-> r.lat, lng |-> r.lng,
           population |-> r.population]

\* cities_df.dropna(subset=['lat', 'lng']): rows keep order and index label.
DropNa(df) == SelectSeq(df, LAMBDA r : r.lat # NaN /\ r.lng # NaN)

\* sort_values('population', ascending=False) of line 190: no kind is given,
\* so pandas sorts with its default 'quicksort', which fixes no order among
\* rows of equal population.  The outcomes are all the orderings of the
\* frame's rows by descending population; the input order of equal rows (the
\* result of a build that sorts short arrays by insertion) is one of them.
RowOrders(n) ==
    {f \in [1..n -> 1..n] : \A a, b \in 1..n : a # b => f[a] # f[b]}

\* Variant of SortByPopulation that leaves the frame in input order.
SortByPopulation_InputOrder(df) == {df}

SortByPopulation(df) ==
    {[i \in 1..Len(df) |-> df[f[i]]] :
        f \in {g \in RowOrders(Len(df)) :
                  \A a, b \in 1..Len(df) :
                      a < b => df[g[a]].population >= df[g[b]].population}}

Range(s) == {s[i] : i \in 1..Len(s)}

SetMin(S) == CHOOSE m \in S : \A x \in S : m <= x

\* Variant of GreedyMinDistance marking a selected position with the largest
\* value instead of -1.
GreedyMinDistance_SelectedAsInf(coords, sel, j) ==
    IF j \in Range(sel) THEN Infinity
    ELSE SetMin({distances_km(coords[j + 1], coords[s + 1]) : s \in Range(sel)})

\* min_distances of one greedy round (lines 196-212): -1 for a selected
\* position, else the least distance from coords_rad[j] to the coordinates of
\* the selected positions.
GreedyMinDistance(coords, sel, j) ==
    IF j \in Range(sel) THEN 0 - 1
    ELSE SetMin({distances_km(coords[j + 1], coords[s + 1]) : s \in Range(sel)})

\* np.argmax(min_distances): first position holding the maximum.
GreedyArgmax(coords, sel) ==
    LET n == Len(coords)
        md(j) == GreedyMinDistance(coords, sel, j)
    IN CHOOSE j \in 0..(n - 1) :
          /\ \A k \in 0..(n - 1) : md(k) <= md(j)
          /\ \A k \in 0..(j - 1) : md(k) < md(j)

\* Closest-pair scan (lines 85-102): rows are visited in the order of the
\* nested iterrows loops, pairs with i >= j skipped, strict "<" update.
RECURSIVE ScanPairs(_, _, _, _)
ScanPairs(cities, i, j, acc) ==
    IF i >= Len(cities) THEN acc
    ELSE IF j >= Len(cities) THEN ScanPairs(cities, i + 1, 0, acc)
    ELSE IF i >= j THEN ScanPairs(cities, i, j + 1, acc)
    ELSE LET dist == RowDistance(cities[i + 1], cities[j + 1])
         IN ScanPairs(cities, i, j + 1,
                      IF dist < acc.min_dist
                      THEN [min_dist |-> dist, closest_pair |-> <<i, j>>]
                      ELSE acc)

\* Variant of ClosestPair whose outer loop starts at the second row.
ClosestPair_SkipFirstRow(cities) ==
    ScanPairs(cities, 1, 0, [min_dist |-> Infinity, closest_pair |-> <<>>])

\* Variant of ClosestPair that reports, among the pairs at the minimum
\* distance, the last one in enumeration order.
ClosestPair_LastOnTie(cities) ==
    LET pairs == {p \in (0..(Len(cities) - 1)) \X (0..(Len(cities) - 1)) :
                     p[1] < p[2]}
        dist(p) == RowDistance(cities[p[1] + 1], cities[p[2] + 1])
    IN IF pairs = {}
       THEN [min_dist |-> Infinity, closest_pair |-> <<>>]
       ELSE LET m == SetMin({dist(p) : p \in pairs})
                atMin == {p \in pairs : dist(p) = m}
                last == CHOOSE p \in atMin : \A q \in atMin :
                            q[1] < p[1] \/ (q[1] = p[1] /\ q[2] <= p[2])
            IN [min_dist |-> m, closest_pair |-> last]

ClosestPair(cities) ==
    ScanPairs(cities, 0, 0, [min_dist |-> Infinity, closest_pair |-> <<>>])

\* Variant of ReplaceIdx that removes the first member of the pair when the
\* two populations are equal.
ReplaceIdx_FirstOnTie(cities, closest_pair) ==
    LET city1_pop == cities[closest_pair[1] + 1].population
        city2_pop == cities[closest_pair[2] + 1].population
    IN IF city1_pop <= city2_pop THEN closest_pair[1] ELSE closest_pair[2]

\* replace_idx (lines 109-112).
ReplaceIdx(cities, closest_pair) ==
    LET city1_pop == cities[closest_pair[1] + 1].population
        city2_pop == cities[closest_pair[2] + 1].population
    IN IF city1_pop < city2_pop THEN closest_pair[1] ELSE closest_pair[2]

\* Variant of CandidateMinDistance that scores a candidate by its greatest
\* distance to the other members.
CandidateMinDistance_Farthest(candidate, cities, replace_idx) ==
    LET ds == {RowDistance(candidate, cities[p + 1]) :
                  p \in (0..(Len(cities) - 1)) \ {replace_idx}}
    IN IF ds = {} THEN Infinity
       ELSE CHOOSE m \in ds : \A x \in ds : x <= m

\* Variant of CandidateMinDistance that leaves out the candidate's distance
\* to itself when the candidate is a member of the selection.
CandidateMinDistance_IgnoreSelf(candidate, cities, replace_idx) ==
    SetMin({Infinity} \cup
           {RowDistance(candidate, cities[p + 1]) :
               p \in {q \in (0..(Len(cities) - 1)) \ {replace_idx} :
                          cities[q + 1].city # candidate.city}})

\* min_distance of one candidate (lines 127-136): least distance to the rows
\* of improved_cities other than the one labelled replace_idx.
CandidateMinDistance(candidate, cities, replace_idx) ==
    SetMin({Infinity} \cup
           {RowDistance(candidate, cities[p + 1]) :
               p \in (0..(Len(cities) - 1)) \ {replace_idx}})

\* Search for the best replacement (lines 118-142): all_cities is visited in
\* frame order, rows whose index label is in selected_indices are skipped,
\* strict ">" update from max_min_distance = 0.  best = 0 stands for None,
\* otherwise it is the position (1-based) of the row in all_cities.
RECURSIVE SearchReplacement(_, _, _, _, _, _)
SearchReplacement(all_cities, cities, sel_set, replace_idx, pos, acc) ==
    IF pos > Len(all_cities) THEN acc
    ELSE LET candidate == all_cities[pos]
             min_distance == CandidateMinDistance(candidate, cities, replace_idx)
         IN IF candidate.index \in sel_set
            THEN SearchReplacement(all_cities, cities, sel_set, replace_idx,
                                   pos + 1, acc)
            ELSE SearchReplacement(all_cities, cities, sel_set, replace_idx,
                                   pos + 1,
                                   IF min_distance > acc.max_min_distance
                                   THEN [max_min_distance |-> min_distance,
                                         best |-> pos]
                                   ELSE acc)

BestReplacement(all_cities, cities, sel_set, replace_idx) ==
    SearchReplacement(all_cities, cities, sel_set, replace_idx, 1,
                      [max_min_distance |-> 0, best |-> 0])

\* Variant of TooClose counting a pair at exactly min_distance_km as too close.
TooClose_Inclusive(scan, min_km) ==
    scan.min_dist <= min_km /\ scan.closest_pair # <<>>

\* Condition of line 105.
TooClose(scan, min_km) == scan.min_dist < min_km /\ scan.closest_pair # <<>>

\* Variant of Accepts taking a replacement that is no worse than the pair.
Accepts_NotWorse(found, scan) ==
    found.best # 0 /\ found.max_min_distance >= scan.min_dist

\* Variant of Accepts taking the best candidate whatever its score.
Accepts_AnyCandidate(found, scan) == found.best # 0

\* Condition of line 145.
Accepts(found, scan) == found.best # 0 /\ found.max_min_distance > scan.min_dist

\* ---------------------------------------------------------------- inputs
\* A frame read from rows: RangeIndex labels 0..N-1, city = row number.
Frame(rows) ==
    [i \in 1..Len(rows) |->
        [index |-> i - 1, city |-> i, lat |-> rows[i].lat, lng |-> rows[i].lng,
         population |-> rows[i].population]]

ValidRows == [lat : {0}, lng : Lngs, population : Pops]
MissingRows == {[lat |-> NaN, lng |-> 0, population |-> 1],
                [lat |-> 0, lng |-> NaN, population |-> 1]}

RowSeqs(S, lo, hi) == UNION {[1..n -> S] : n \in lo..hi}

\* Scenario A of the specification: A(0,0,pop 100), B(0,1,pop 50),
\* C(0,10,pop 10) in every input order, n_cities = 2, min_distance_km = 500.
ScenarioARows ==
    {[lat |-> 0, lng |-> 0, population |-> 100],
     [lat |-> 0, lng |-> 1, population |-> 50],
     [lat |-> 0, lng |-> 10, population |-> 10]}

ScenarioAFrames ==
    {Frame(rows) : rows \in {s \in [1..3 -> ScenarioARows] : Range(s) = ScenarioARows}}

\* Scenario B of the specification: four cluster candidates at (0,0), mutually
\* at 0 km, and one isolated candidate at (0,18), 2001.5 km away, in every
\* input order and with every population assignment from Pops;
\* n_cities = 3, min_distance_km = 500.
ScenarioBRows == [lat : {0}, lng : {0, 18}, population : Pops]

IsScenarioB(df) ==
    /\ Len(df) = 5
    /\ Cardinality({i \in 1..Len(df) : df[i].lng = 0}) = 4
    /\ Cardinality({i \in 1..Len(df) : df[i].lng = 18}) = 1
    /\ \A i \in 1..Len(df) : df[i].lat = 0

\* A frame without the column c: the field is absent from every row.
WithoutColumn(rows, c) ==
    [i \in 1..Len(rows) |->
        [lat |-> IF c = "lat" THEN NaN ELSE rows[i].lat,
         lng |-> IF c = "lng" THEN NaN ELSE rows[i].lng,
         population |-> rows[i].population]]

\* ------------------------------------------------------------------ Init
\* State at the call select_dispersed_cities(cities_df, n_cities, min_distance_km).
CallSelect(cols, df, n, d) ==
    /\ columns = cols
    /\ cities_df = df
    /\ n_requested = n
    /\ min_distance_km = d
    /\ pc = "start"
    /\ n_cities = n
    /\ valid_cities = <<>>
    /\ coords_rad = <<>>
    /\ selected_indices = <<>>
    /\ improved_cities = <<>>
    /\ selected_index_set = {}
    /\ warnings = {}
    /\ error = "none"
    /\ trail = <<>>
    /\ replaced = <<>>

Init ==
    \/ \E rows \in RowSeqs(ValidRows \cup MissingRows, 0, MaxPool),
          n \in 1..MaxN, d \in MinDistances :
          CallSelect(AllColumns, Frame(rows), n, d)
    \/ \E c \in {"lat", "lng"}, rows \in RowSeqs(ValidRows, 1, 1), n \in 1..2 :
          CallSelect(AllColumns \ {c}, Frame(WithoutColumn(rows, c)), n, 150000)
    \/ \E rows \in RowSeqs(ValidRows, 1, 1), n \in 1..2 :
          CallSelect(AllColumns \ {"lat", "lng"},
                     Frame(WithoutColumn(WithoutColumn(rows, "lat"), "lng")),
                     n, 150000)
    \/ \E df \in ScenarioAFrames : CallSelect(AllColumns, df, 2, 500000)
    \/ \E rows \in [1..5 -> ScenarioBRows] :
          IsScenarioB(rows) /\ CallSelect(AllColumns, Frame(rows), 3, 500000)

\* --------------------------------------------------------------- actions
\* select_dispersed_cities, lines 175-176: a missing coordinate column.
SchemaError ==
    /\ pc = "start"
    /\ ~({"lat", "lng"} \subseteq columns)
    /\ pc' = "error"
    /\ error' = "ValueError"
    /\ UNCHANGED <<columns, cities_df, n_requested, min_distance_km, n_cities,
                   valid_cities, coords_rad, selected_indices, improved_cities,
                   selected_index_set, warnings, trail, replaced>>

\* Variant of Prepare that runs without the column check of lines 175-176.
Prepare_Unchecked ==
    /\ pc = "start"
    /\ LET valid == DropNa(cities_df)
       IN /\ warnings' = IF Len(valid) < n_cities
                         THEN warnings \cup {"insufficient"} ELSE warnings
          /\ n_cities' = IF Len(valid) < n_cities THEN Len(valid) ELSE n_cities
          /\ coords_rad' = [i \in 1..Len(valid) |-> <<valid[i].lat, valid[i].lng>>]
          /\ valid_cities' \in SortByPopulation(valid)
    /\ selected_indices' = <<0>>
    /\ pc' = "greedy"
    /\ UNCHANGED <<columns, cities_df, n_requested, min_distance_km,
                   improved_cities, selected_index_set, error, trail, replaced>>

\* select_dispersed_cities, lines 178-191: dropna, size reduction with its
\* warning, coords_rad taken from the frame as it is at line 187 (before the
\* sort of line 190), sort by population (any order of equal populations),
\* seed position 0.
Prepare ==
    /\ pc = "start"
    /\ {"lat", "lng"} \subseteq columns
    /\ LET valid == DropNa(cities_df)
       IN /\ warnings' = IF Len(valid) < n_cities
                         THEN warnings \cup {"insufficient"} ELSE warnings
          /\ n_cities' = IF Len(valid) < n_cities THEN Len(valid) ELSE n_cities
          /\ coords_rad' = [i \in 1..Len(valid) |-> <<valid[i].lat, valid[i].lng>>]
          /\ valid_cities' \in SortByPopulation(valid)
    /\ selected_indices' = <<0>>
    /\ pc' = "greedy"
    /\ UNCHANGED <<columns, cities_df, n_requested, min_distance_km,
                   improved_cities, selected_index_set, error, trail, replaced>>

\* One round of the loop of lines 194-216.
GreedyRound ==
    /\ pc = "greedy"
    /\ Len(selected_indices) < n_cities
    /\ selected_indices' =
          Append(selected_indices, GreedyArgmax(coords_rad, selected_indices))
    /\ UNCHANGED <<columns, cities_df, n_requested, min_distance_km, pc,
                   n_cities, valid_cities, coords_rad, improved_cities,
                   selected_index_set, warnings, error, trail, replaced>>

\* select_dispersed_cities, lines 218-224: iloc of the selected positions
\* (IndexError when a position is out of bounds), reset_index, then entry of
\* post_process_city_selection (lines 68-76): copy, set of index labels.
TakeSelected ==
    /\ pc = "greedy"
    /\ Len(selected_indices) >= n_cities
    /\ \A i \in 1..Len(selected_indices) : selected_indices[i] < Len(valid_cities)
    /\ improved_cities' = [i \in 1..Len(selected_indices) |->
                              Row(valid_cities[selected_indices[i] + 1])]
    /\ selected_index_set' = 0..(Len(selected_indices) - 1)
    /\ trail' = <<improved_cities'>>
    /\ pc' = "repair"
    /\ UNCHANGED <<columns, cities_df, n_requested, min_distance_km, n_cities,
                   valid_cities, coords_rad, selected_indices, warnings, error,
                   replaced>>

TakeSelectedIndexError ==
    /\ pc = "greedy"
    /\ Len(selected_indices) >= n_cities
    /\ \E i \in 1..Len(selected_indices) : selected_indices[i] >= Len(valid_cities)
    /\ pc' = "error"
    /\ error' = "IndexError"
    /\ UNCHANGED <<columns, cities_df, n_requested, min_distance_km, n_cities,
                   valid_cities, coords_rad, selected_indices, improved_cities,
                   selected_index_set, warnings, trail, replaced>>

\* post_process_city_selection, one iteration of the while loop that ends in
\* the else branch of line 153: warning, break, return (lines 154-158).
Converge ==
    /\ pc = "repair"
    /\ ~TooClose(ClosestPair(improved_cities), min_distance_km)
    /\ warnings' = warnings \cup {"converged"}
    /\ pc' = "done"
    /\ UNCHANGED <<columns, cities_df, n_requested, min_distance_km, n_cities,
                   valid_cities, coords_rad, selected_indices, improved_cities,
                   selected_index_set, error, trail, replaced>>

\* One iteration that accepts a replacement (lines 105-150).
Replace ==
    /\ pc = "repair"
    /\ LET scan == ClosestPair(improved_cities)
       IN /\ TooClose(scan, min_distance_km)
          /\ LET replace_idx == ReplaceIdx(improved_cities, scan.closest_pair)
                 found == BestReplacement(valid_cities, improved_cities,
                                          selected_index_set, replace_idx)
             IN /\ Accepts(found, scan)
                /\ replace_idx \in selected_index_set
                /\ improved_cities' =
                      [improved_cities EXCEPT
                          ![replace_idx + 1] = Row(valid_cities[found.best])]
                /\ selected_index_set' =
                      (selected_index_set \ {replace_idx})
                          \cup {valid_cities[found.best].index}
                /\ replaced' = Append(replaced, replace_idx)
    /\ trail' = Append(trail, improved_cities')
    /\ UNCHANGED <<columns, cities_df, n_requested, min_distance_km, pc,
                   n_cities, valid_cities, coords_rad, selected_indices,
                   warnings, error>>

\* One iteration that accepts a replacement whose replace_idx is no longer in
\* selected_indices: line 147 has assigned the row, set.remove of line 148
\* raises KeyError.
ReplaceKeyError ==
    /\ pc = "repair"
    /\ LET scan == ClosestPair(improved_cities)
       IN /\ TooClose(scan, min_distance_km)
          /\ LET replace_idx == ReplaceIdx(improved_cities, scan.closest_pair)
                 found == BestReplacement(valid_cities, improved_cities,
                                          selected_index_set, replace_idx)
             IN /\ Accepts(found, scan)
                /\ replace_idx \notin selected_index_set
                /\ improved_cities' =
                      [improved_cities EXCEPT
                          ![replace_idx + 1] = Row(valid_cities[found.best])]
                /\ replaced' = Append(replaced, replace_idx)
    /\ trail' = Append(trail, improved_cities')
    /\ pc' = "error"
    /\ error' = "KeyError"
    /\ UNCHANGED <<columns, cities_df, n_requested, min_distance_km, n_cities,
                   valid_cities, coords_rad, selected_indices,
                   selected_index_set, warnings>>

\* One iteration that finds no better replacement (lines 151-152): warning,
\* improvements_made stays False, the loop ends and the selection is returned.
Stall ==
    /\ pc = "repair"
    /\ LET scan == ClosestPair(improved_cities)
       IN /\ TooClose(scan, min_distance_km)
          /\ LET replace_idx == ReplaceIdx(improved_cities, scan.closest_pair)
                 found == BestReplacement(valid_cities, improved_cities,
                                          selected_index_set, replace_idx)
             IN ~Accepts(found, scan)
    /\ warnings' = warnings \cup {"stalled"}
    /\ pc' = "done"
    /\ UNCHANGED <<columns, cities_df, n_requested, min_distance_km, n_cities,
                   valid_cities, coords_rad, selected_indices, improved_cities,
                   selected_index_set, error, trail, replaced>>

Next ==
    \/ SchemaError
    \/ Prepare
    \/ GreedyRound
    \/ TakeSelected
    \/ TakeSelectedIndexError
    \/ Converge
    \/ Replace
    \/ ReplaceKeyError
    \/ Stall

Spec == Init /\ [][Next]_vars

\* ------------------------------------------- direct calls of the repair
\* post_process_city_selection called on its own: all_cities is any frame of
\* valid rows, selected_cities its rows at increasing positions (a mask or an
\* iloc selection), indexed 0..k-1 as a reset_index or an earlier repair run
\* leaves them.
Increasing(s) == \A a, b \in DOMAIN s : a < b => s[a] < s[b]

InitRepair ==
    \E rows \in RowSeqs(ValidRows, 0, MaxPool), k \in 0..MaxN, d \in MinDistances :
      \E picks \in [1..k -> 1..Len(rows)] :
        /\ Increasing(picks)
        /\ columns = AllColumns
        /\ cities_df = <<>>
        /\ n_requested = 0
        /\ min_distance_km = d
        /\ pc = "repair"
        /\ n_cities = 0
        /\ valid_cities = Frame(rows)
        /\ coords_rad = <<>>
        /\ selected_indices = <<>>
        /\ improved_cities = [i \in 1..k |-> Row(Frame(rows)[picks[i]])]
        /\ selected_index_set = 0..(k - 1)
        /\ warnings = {}
        /\ error = "none"
        /\ trail = <<improved_cities>>
        /\ replaced = <<>>

NextRepair ==
    \/ Converge
    \/ Replace
    \/ ReplaceKeyError
    \/ Stall

SpecRepair == InitRepair /\ [][NextRepair]_vars

\* ------------------------------------------------ vocabulary of the claims
Returned == pc = "done"

SchemaOk == {"lat", "lng"} \subseteq columns

NumValid == Len(DropNa(cities_df))

Cities(sel) == {sel[i].city : i \in 1..Len(sel)}

NoRecordTwice(sel) ==
    \A i, j \in 1..Len(sel) : i # j => sel[i].city # sel[j].city

PoolRows == {Row(valid_cities[i]) : i \in 1..Len(valid_cities)}

PairsOf(sel) == {p \in (1..Len(sel)) \X (1..Len(sel)) : p[1] < p[2]}

PairDistances(sel) == {RowDistance(sel[p[1]], sel[p[2]]) : p \in PairsOf(sel)}

\* Minimum pairwise distance of a selection, Infinity when it has no pair.
MinPairwise(sel) == SetMin({Infinity} \cup PairDistances(sel))

AllPairsAtLeast(sel, d) == \A p \in PairsOf(sel) : RowDistance(sel[p[1]], sel[p[2]]) >= d

\* Isolation score of a record: least distance to the given members.
IsolationScore(r, members) == SetMin({RowDistance(r, m) : m \in members})

\* ---------------------------------------------------------------- claims

\* C1: for every input with the coordinate columns, the call returns a
\* selection of size min(n_cities, number of valid-coordinate candidates);
\* in particular it returns (it does not raise) on an empty pool.
Claim_C1_SizeIsMin ==
    (pc \in {"done", "error"} /\ SchemaOk)
        => (Returned /\ Len(improved_cities) = Min2(n_requested, NumValid))

\* C2: after the greedy construction and after every replacement, the
\* selection holds no record twice, every member is a row of the candidate
\* pool, and its size is the size the greedy construction produced.
Inv_C2_SelectionWellFormed ==
    trail # <<>> =>
        /\ improved_cities = trail[Len(trail)]
        /\ \A t \in 1..Len(trail) :
              /\ NoRecordTwice(trail[t])
              /\ \A i \in 1..Len(trail[t]) : trail[t][i] \in PoolRows
              /\ Len(trail[t]) = Len(trail[1])

Witness_C2 ==
    /\ Returned
    /\ Len(replaced) >= 1
    /\ Len(improved_cities) >= 2
    /\ improved_cities # trail[1]

\* C3: at each greedy round the appended record's isolation score (least
\* distance to the records selected before it) is at least that of every
\* record still unselected after the round.
Claim_C3_GreedyStep ==
    (selected_indices # <<>> /\ valid_cities # <<>>) =>
        \A r \in 2..Len(selected_indices) :
            LET rec(pos) == valid_cities[pos + 1]
                prior == {rec(selected_indices[i]) : i \in 1..(r - 1)}
                chosen == rec(selected_indices[r])
                unselected == (0..(Len(valid_cities) - 1)) \
                              {selected_indices[i] : i \in 1..r}
            IN \A u \in unselected :
                  IsolationScore(chosen, prior) >= IsolationScore(rec(u), prior)

\* C4: with the coordinate columns present and at least one valid-coordinate
\* candidate, the pipeline never ends in an exception.
Claim_C4_NoAbort ==
    (SchemaOk /\ NumValid >= 1) => error = "none"

\* C5: during one repair run the selection never takes a value it had
\* before, so the replacements of a run are finitely many.
Inv_C5_NoSelectionRevisited ==
    \A a, b \in 1..Len(trail) : a # b => trail[a] # trail[b]

Witness_C5 ==
    /\ Returned
    /\ Len(replaced) >= 2

\* C6: a selection returned without the stalled warning has every pair of
\* members at distance >= min_distance_km (equality is not a violation).
Inv_C6_ViolationImpliesWarning ==
    (Returned /\ "stalled" \notin warnings)
        => AllPairsAtLeast(improved_cities, min_distance_km)

Witness_C6 ==
    /\ Returned
    /\ "stalled" \notin warnings
    /\ Len(improved_cities) >= 2
    /\ MinPairwise(improved_cities) = min_distance_km
    /\ Len(replaced) >= 1

\* C7: when the repair stops stalled, no row of the pool outside the current
\* selection has a least distance to the members other than the removal
\* target that exceeds the violating pair's distance.
Claim_C7_StalledMeansNoImprovement ==
    (Returned /\ "stalled" \in warnings) =>
        LET scan == ClosestPair(improved_cities)
            replace_idx == ReplaceIdx(improved_cities, scan.closest_pair)
        IN \A c \in PoolRows :
              c.city \notin Cities(improved_cities)
                  => CandidateMinDistance(c, improved_cities, replace_idx)
                         <= scan.min_dist

\* C8 as stated: every replacement strictly increases the minimum pairwise
\* distance of the selection.
Claim_C8_StrictIncrease ==
    \A t \in 1..(Len(trail) - 1) :
        MinPairwise(trail[t + 1]) > MinPairwise(trail[t])

\* Number of member pairs of sel at distance d.
PairsAt(sel, d) ==
    Cardinality({p \in PairsOf(sel) : RowDistance(sel[p[1]], sel[p[2]]) = d})

\* C8 amended: a replacement never decreases the minimum pairwise distance,
\* and strictly increases it when the violating pair was the only pair at
\* the minimum.
Thm_C8_IncreaseUnlessTied ==
    \A t \in 1..(Len(trail) - 1) :
        /\ MinPairwise(trail[t + 1]) >= MinPairwise(trail[t])
        /\ PairsAt(trail[t], MinPairwise(trail[t])) = 1
              => MinPairwise(trail[t + 1]) > MinPairwise(trail[t])

Witness_C8 ==
    /\ Len(trail) >= 2
    /\ Len(trail[1]) >= 3
    /\ PairsAt(trail[1], MinPairwise(trail[1])) = 1
    /\ MinPairwise(trail[2]) > MinPairwise(trail[1])
    /\ MinPairwise(trail[2]) < min_distance_km

\* C9: a selection whose pairs are all at distance >= min_distance_km
\* (sizes 0 and 1 included) is returned as it was passed, position by
\* position, without any replacement and without the stalled warning.
Thm_C9_Idempotent ==
    (trail # <<>> /\ AllPairsAtLeast(trail[1], min_distance_km)) =>
        /\ Len(trail) = 1
        /\ improved_cities = trail[1]
        /\ error = "none"
        /\ "stalled" \notin warnings

Witness_C9 ==
    /\ Returned
    /\ Len(trail) = 1
    /\ Len(improved_cities) >= 2
    /\ MinPairwise(improved_cities) = min_distance_km
    /\ Cities(improved_cities) # {r.city : r \in PoolRows}

\* C10: on Scenario A, in every input order, the call returns {A, C}, the
\* records of population 100 and 10.
Claim_C10_ScenarioA ==
    (cities_df \in ScenarioAFrames /\ pc \in {"done", "error"}) =>
        /\ Returned
        /\ {improved_cities[i].population : i \in 1..Len(improved_cities)}
               = {100, 10}

\* C11: on Scenario B, in every input order and population assignment, the
\* call returns a selection with at most one cluster member that contains
\* the isolated candidate.
Claim_C11_ScenarioB ==
    (IsScenarioB(cities_df) /\ pc \in {"done", "error"}) =>
        /\ Returned
        /\ Cardinality({i \in 1..Len(improved_cities) :
                            improved_cities[i].lng = 0}) <= 1
        /\ \E i \in 1..Len(improved_cities) : improved_cities[i].lng = 18

\* C12: when n_cities exceeds the number of valid-coordinate candidates and
\* that number is at least 1, the call warns about insufficient candidates,
\* raises nothing, makes no replacement, and returns exactly the
\* valid-coordinate candidates, whatever labels they carry and whatever
\* min_distance_km is.
Thm_C12_InsufficientReturnsAll ==
    (SchemaOk /\ NumValid >= 1 /\ n_requested > NumValid) =>
        /\ error = "none"
        /\ replaced = <<>>
        /\ pc # "start" => ("insufficient" \in warnings /\ n_cities = NumValid)
        /\ Returned =>
              /\ Len(improved_cities) = NumValid
              /\ Cities(improved_cities) =
                     {r.city : r \in Range(DropNa(cities_df))}
              /\ \A i \in 1..Len(improved_cities) :
                     improved_cities[i] \in PoolRows

\* Two valid candidates too close to each other behind a row without
\* coordinates: the second carries a label outside 0..1, so repair examines
\* it, and the call returns both with the stalled warning.
Witness_C12 ==
    /\ Returned
    /\ n_requested > NumValid
    /\ NumValid = 2
    /\ "insufficient" \in warnings
    /\ "stalled" \in warnings
    /\ \E i \in 1..Len(valid_cities) : valid_cities[i].index \notin selected_index_set

\* C13: when the lat column or the lng column is absent, the call ends in the
\* schema error (ValueError) and nothing else has happened: no dropna, no
\* warning, no greedy round, no repair iteration, no selection.
Thm_C13_SchemaErrorFirst ==
    ~SchemaOk =>
        /\ pc = "start" \/ (pc = "error" /\ error = "ValueError")
        /\ valid_cities = <<>>
        /\ coords_rad = <<>>
        /\ selected_indices = <<>>
        /\ improved_cities = <<>>
        /\ selected_index_set = {}
        /\ trail = <<>>
        /\ replaced = <<>>
        /\ warnings = {}
        /\ n_cities = n_requested

Witness_C13 ==
    /\ ~SchemaOk
    /\ pc = "error"
    /\ error = "ValueError"
    /\ Len(cities_df) >= 1
    /\ "lat" \in columns

\* C14: in every replacement step the removal target is a member of the
\* violating pair whose population is at most the other member's, and on
\* equal populations it is the second member of the pair.
Thm_C14_RemovalTarget ==
    \A t \in 1..Len(replaced) :
        LET pair == ClosestPair(trail[t]).closest_pair
            city1_pop == trail[t][pair[1] + 1].population
            city2_pop == trail[t][pair[2] + 1].population
        IN /\ replaced[t] \in {pair[1], pair[2]}
           /\ replaced[t] = pair[1] => city1_pop <= city2_pop
           /\ replaced[t] = pair[2] => city2_pop <= city1_pop
           /\ city1_pop = city2_pop => replaced[t] = pair[2]

\* A run with two replacements: one on a pair of equal populations, one that
\* removes the first member of its pair.
Witness_C14 ==
    /\ Len(replaced) >= 2
    /\ \E t \in 1..Len(replaced) :
          LET pair == ClosestPair(trail[t]).closest_pair
          IN trail[t][pair[1] + 1].population = trail[t][pair[2] + 1].population
    /\ \E t \in 1..Len(replaced) :
          replaced[t] = ClosestPair(trail[t]).closest_pair[1]

\* C15: on every selection of at least two members that repair scans, the
\* reported distance is the minimum over all pairs of distinct members, the
\* reported pair is at that distance, and no pair at that distance comes
\* before it in enumeration order (ascending first position, then second).
Thm_C15_ScanFindsFirstMinimum ==
    \A t \in 1..Len(trail) :
        Len(trail[t]) >= 2 =>
            LET sel == trail[t]
                scan == ClosestPair(sel)
                i == scan.closest_pair[1] + 1
                j == scan.closest_pair[2] + 1
            IN /\ scan.closest_pair # <<>>
               /\ <<i, j>> \in PairsOf(sel)
               /\ scan.min_dist = RowDistance(sel[i], sel[j])
               /\ scan.min_dist = MinPairwise(sel)
               /\ \A p \in PairsOf(sel) :
                     RowDistance(sel[p[1]], sel[p[2]]) = scan.min_dist
                         => (i < p[1] \/ (i = p[1] /\ j <= p[2]))

\* A scanned selection of three members with two pairs at the minimum
\* distance, the later of which does not share the first position.
Witness_C15 ==
    /\ pc \in {"done", "error"}
    /\ Len(replaced) >= 1
    /\ \E t \in 1..Len(trail) :
          /\ Len(trail[t]) >= 3
          /\ PairsAt(trail[t], MinPairwise(trail[t])) >= 2
          /\ ClosestPair(trail[t]).closest_pair # <<0, 1>>

\* C16: a repair iteration changes the selection only by an accepted
\* replacement, which puts at the position of the removal target a row whose
\* least distance to the other members strictly exceeds the violating pair's
\* distance and leaves every other position and the pool as they were; a
\* best score equal to the pair's distance is rejected, and the stalled
\* iteration changes neither the selection, nor selected_indices, nor the
\* pool.
Thm_C16_AcceptStrictlyBetterInPlace ==
    [][pc = "repair" =>
        LET scan == ClosestPair(improved_cities)
            replace_idx == ReplaceIdx(improved_cities, scan.closest_pair)
            found == BestReplacement(valid_cities, improved_cities,
                                     selected_index_set, replace_idx)
        IN /\ valid_cities' = valid_cities
           /\ Len(improved_cities') = Len(improved_cities)
           /\ improved_cities' # improved_cities =>
                 /\ TooClose(scan, min_distance_km)
                 /\ \A p \in 1..Len(improved_cities) :
                       p # replace_idx + 1 => improved_cities'[p] = improved_cities[p]
                 /\ improved_cities'[replace_idx + 1] \in PoolRows
                 /\ CandidateMinDistance(improved_cities'[replace_idx + 1],
                                         improved_cities, replace_idx)
                        > scan.min_dist
                 /\ "stalled" \notin warnings'
           /\ (TooClose(scan, min_distance_km)
                 /\ found.max_min_distance <= scan.min_dist) =>
                 /\ "stalled" \in warnings'
                 /\ pc' = "done"
           /\ "stalled" \in warnings' =>
                 /\ improved_cities' = improved_cities
                 /\ selected_index_set' = selected_index_set
                 /\ replaced' = replaced
    ]_vars

\* After one replacement the best candidate scores exactly the violating
\* pair's distance and the run has stalled.
Witness_C16 ==
    /\ Returned
    /\ "stalled" \in warnings
    /\ Len(replaced) >= 1
    /\ LET scan == ClosestPair(improved_cities)
           replace_idx == ReplaceIdx(improved_cities, scan.closest_pair)
           found == BestReplacement(valid_cities, improved_cities,
                                    selected_index_set, replace_idx)
       IN found.best # 0 /\ found.max_min_distance = scan.min_dist

\* C17: in every call on a pool with at least one valid candidate, position 0
\* of the selection holds a record of maximal population of the pool after
\* the greedy construction, no replacement step takes position 0 as removal
\* target, and the record is still at position 0 of the returned selection.
Thm_C17_SeedSurvives ==
    (SchemaOk /\ NumValid >= 1) =>
        /\ \A t \in 1..Len(trail) :
              /\ Len(trail[t]) >= 1
              /\ trail[t][1] = trail[1][1]
              /\ \A r \in Range(DropNa(cities_df)) :
                    r.population <= trail[t][1].population
        /\ \A t \in 1..Len(replaced) : replaced[t] # 0
        /\ Returned => improved_cities[1] = Row(valid_cities[1])

\* A returned run with a replacement on a violating pair that holds
\* position 0 and a member of the same population.
Witness_C17 ==
    /\ Returned
    /\ NumValid >= 1
    /\ \E t \in 1..Len(replaced) :
          LET pair == ClosestPair(trail[t]).closest_pair
          IN /\ pair[1] = 0
             /\ trail[t][1].population = trail[t][pair[2] + 1].population

\* Number of member pairs of sel at distance d or less.
PairsWithin(sel, d) ==
    Cardinality({p \in PairsOf(sel) : RowDistance(sel[p[1]], sel[p[2]]) <= d})

\* C18: across every accepted replacement the minimum pairwise distance of
\* the selection does not decrease and the number of member pairs at or
\* below the minimum of before the replacement strictly decreases; the
\* returned selection's minimum is at least that of the selection passed in.
Thm_C18_MinimumNeverDecreases ==
    /\ \A t \in 1..(Len(trail) - 1) :
          /\ MinPairwise(trail[t + 1]) >= MinPairwise(trail[t])
          /\ PairsWithin(trail[t + 1], MinPairwise(trail[t]))
                < PairsWithin(trail[t], MinPairwise(trail[t]))
    /\ Returned => MinPairwise(improved_cities) >= MinPairwise(trail[1])

\* A returned run with a replacement on a selection of three that had
\* several pairs at its minimum: the minimum stays where it was and fewer
\* pairs are at it.
Witness_C18 ==
    /\ Returned
    /\ Len(trail) >= 2
    /\ Len(trail[1]) >= 3
    /\ PairsWithin(trail[1], MinPairwise(trail[1])) >= 2
    /\ MinPairwise(trail[2]) = MinPairwise(trail[1])
    /\ PairsWithin(trail[2], MinPairwise(trail[1])) >= 1

====
